---- MODULE Spec2Model ----
(***************************************************************************)
(* TalentScout hiring assistant: the chat shell (app.py), the dialogue     *)
(* orchestrator (chatbot.py) and the validation layer (validators.py).     *)
(* Texts are TLA+ strings; Char(s, i) is the i-th character of s.          *)
(***************************************************************************)
EXTENDS Integers, Sequences, FiniteSets, TLC

VARIABLES
    conversation_ended,    \* st.session_state.conversation_ended
    messages,              \* st.session_state.messages (the displayed transcript)
    chatbot,               \* identity of the TalentScoutChatbot in st.session_state.chatbot
    conversation_history,  \* chatbot.conversation_history
    candidate_info,        \* chatbot.candidate_info
    remote,                \* the remote LLM call of the last step: message list sent and
                           \* what came back (NoCall when the step made none)
    turns,                 \* user turns submitted in this session
    input,                 \* argument of the validation-layer function under check
    output,                \* its result
    pc                     \* "dialogue", or "ready"/"done" for a function application

vars == <<conversation_ended, messages, chatbot, conversation_history,
          candidate_info, remote, turns, input, output, pc>>

dialogue_vars == <<conversation_ended, messages, chatbot, conversation_history,
                   candidate_info, remote, turns>>

\* ------------------------------------------------------------------ bounds

MaxTurns == 3
MaxWindowTurns == 8
MaxFragments == 3
MaxLen == 4

\* ------------------------------------------------------------------ inputs

\* what a candidate may type in the dialogue checks
Utterances ==
    {"Bye.", "a@b.co", "mail x@y.io", "I have 1 year of experience", "5 yrs",
     "555-123 4567", "+15550001111"}

\* what a candidate may type in the long interviews of SpecWindow
WindowUtterances == {"Hello", "I use Python", "bye"}

Prompts == Utterances \cup WindowUtterances

\* ------------------------------------------------- strings (str, re helpers)

\* s[i - 1] of the source, "" outside the string
Char(s, i) == IF i >= 1 /\ i <= Len(s) THEN SubSeq(s, i, i) ELSE ""

Drop(s, n) == SubSeq(s, n + 1, Len(s))

UpperSeq == "ABCDEFGHIJKLMNOPQRSTUVWXYZ"

LowerSeq == "abcdefghijklmnopqrstuvwxyz"

UpperLetters == {Char(UpperSeq, i) : i \in 1..26}

LowerLetters == {Char(LowerSeq, i) : i \in 1..26}

Letters == UpperLetters \cup LowerLetters

Digits == {"0", "1", "2", "3", "4", "5", "6", "7", "8", "9"}

\* \s and str.strip()/str.split() whitespace
Whitespace == {" ", "\t", "\n"}

\* \w
WordChars == Letters \cup Digits \cup {"_"}

Min(S) == CHOOSE x \in S : \A y \in S : x <= y

Max(S) == CHOOSE x \in S : \A y \in S : x >= y

LowerChar(c) ==
    IF c \in UpperLetters
    THEN Char(LowerSeq, CHOOSE i \in 1..26 : Char(UpperSeq, i) = c)
    ELSE c

RECURSIVE Lower(_)
Lower(s) ==
    IF s = "" THEN "" ELSE LowerChar(Char(s, 1)) \o Lower(Drop(s, 1))

RECURSIVE LStrip(_)
LStrip(s) ==
    IF s # "" /\ Char(s, 1) \in Whitespace THEN LStrip(Drop(s, 1)) ELSE s

RECURSIVE RStrip(_)
RStrip(s) ==
    IF s # "" /\ Char(s, Len(s)) \in Whitespace
    THEN RStrip(SubSeq(s, 1, Len(s) - 1))
    ELSE s

Strip(s) == LStrip(RStrip(s))

\* first index >= i of s whose character is not in set, Len(s) + 1 if none
FirstNotIn(s, i, set) ==
    LET c == {k \in i..Len(s) : Char(s, k) \notin set}
    IN IF c = {} THEN Len(s) + 1 ELSE Min(c)

\* first index >= i of s whose character is in set, Len(s) + 1 if none
FirstIn(s, i, set) ==
    LET c == {k \in i..Len(s) : Char(s, k) \in set}
    IN IF c = {} THEN Len(s) + 1 ELSE Min(c)

\* str.split(): the whitespace-delimited tokens, in order
RECURSIVE Split(_)
Split(s) ==
    LET t == LStrip(s)
    IN IF t = "" THEN <<>>
       ELSE LET n == FirstIn(t, 1, Whitespace) - 1
            IN <<SubSeq(t, 1, n)>> \o Split(Drop(t, n))

\* re.sub(r'[set]', '', s)
RECURSIVE RemoveChars(_, _)
RemoveChars(s, set) ==
    IF s = "" THEN ""
    ELSE (IF Char(s, 1) \in set THEN "" ELSE Char(s, 1)) \o RemoveChars(Drop(s, 1), set)

\* re.sub(r'[^set]', '', s)
RECURSIVE KeepChars(_, _)
KeepChars(s, set) ==
    IF s = "" THEN ""
    ELSE (IF Char(s, 1) \in set THEN Char(s, 1) ELSE "") \o KeepChars(Drop(s, 1), set)

\* sub in s
Contains(sub, s) ==
    \E i \in 1..(Len(s) - Len(sub) + 1) : SubSeq(s, i, i + Len(sub) - 1) = sub

InList(x, list) == \E i \in 1..Len(list) : list[i] = x

AllIn(s, a, b, set) == \A k \in a..b : Char(s, k) \in set

IsWordAt(s, i) == i >= 1 /\ i <= Len(s) /\ Char(s, i) \in WordChars

\* \b between the characters i - 1 and i of s
Boundary(s, i) == IsWordAt(s, i - 1) # IsWordAt(s, i)

\* ------------------------------------------------ chatbot.py: exit detection

exit_keywords == <<"quit", "exit", "bye", "goodbye", "stop", "end", "finish", "done">>

exit_phrases ==
    <<"i want to quit", "i want to exit", "i'm done", "that's all",
      "end interview", "finish interview", "i have to go", "gotta go">>

\* a word with its punctuation removed matched by containment, not equality
word_is_exit_substring(word) ==
    LET clean_word == KeepChars(word, WordChars)
    IN \E i \in 1..Len(exit_keywords) : Contains(exit_keywords[i], clean_word)

word_is_exit(word) ==
    LET clean_word == KeepChars(word, WordChars)
    IN InList(clean_word, exit_keywords)

is_exit_keyword(user_input) ==
    IF user_input = "" THEN FALSE
    ELSE LET user_lower == Strip(Lower(user_input))
             words == Split(user_lower)
         IN \/ InList(user_lower, exit_keywords)
            \/ \E i \in 1..Len(words) : word_is_exit(words[i])
            \/ \E i \in 1..Len(exit_phrases) : Contains(exit_phrases[i], user_lower)

\* ------------------------------------------- validators.py: field extractors

\* character classes of email_pattern: [A-Za-z0-9._%+-], [A-Za-z0-9.-], [A-Z|a-z]
LocalChars == Letters \cup Digits \cup {".", "_", "%", "+", "-"}

DomainChars == Letters \cup Digits \cup {".", "-"}

TldChars == Letters \cup {"|"}

\* The matches of email_pattern that start at i, as <<dot, end>>: the index of the
\* "." before the top-level domain and the index of the last character.
email_matches_at(s, i) ==
    LET at == FirstNotIn(s, i, LocalChars)
    IN IF ~Boundary(s, i) \/ at = i \/ at > Len(s) \/ Char(s, at) # "@" THEN {}
       ELSE LET dEnd == FirstNotIn(s, at + 1, DomainChars) - 1
            IN {m \in ((at + 2)..dEnd) \X ((at + 4)..Len(s)) :
                    /\ Char(s, m[1]) = "."
                    /\ m[2] >= m[1] + 2
                    /\ AllIn(s, m[1] + 1, m[2], TldChars)
                    /\ Boundary(s, m[2] + 1)}

\* The one match the greedy engine returns at i: the domain as long as possible,
\* then the top-level domain as long as possible.
email_match_at(s, i) ==
    LET ms == email_matches_at(s, i)
        dot == Max({m[1] : m \in ms})
        end == Max({m[2] : m \in {x \in ms : x[1] = dot}})
    IN SubSeq(s, i, end)

\* EmailValidator.extract_email; None is modelled as "" (a match is never empty
\* and the callers test the result's truth value only)
extract_email(text) ==
    LET starts == {i \in 1..Len(text) : email_matches_at(text, i) # {}}
    IN IF text = "" \/ starts = {} THEN "" ELSE email_match_at(text, Min(starts))

\* EmailValidator.is_valid_email: re.match anchors the pattern at the start only
is_valid_email(email) ==
    IF email = "" THEN FALSE ELSE email_matches_at(email, 1) # {}

NonZeroDigits == Digits \ {"0"}

\* phone_pattern [\+]?[1-9]?[0-9]{7,14} at i: index of the last matched
\* character, 0 when there is no match at i
phone_match_end(s, i) ==
    LET j == IF Char(s, i) = "+" THEN i + 1 ELSE i
        withLead == Min({FirstNotIn(s, j + 1, Digits), j + 15}) - (j + 1)
        noLead == Min({FirstNotIn(s, j, Digits), j + 14}) - j
    IN IF j <= Len(s) /\ Char(s, j) \in NonZeroDigits /\ withLead >= 7
       THEN j + withLead
       ELSE IF noLead >= 7 THEN j + noLead - 1 ELSE 0

\* PhoneValidator.extract_phone ("" for None)
extract_phone(text) ==
    LET cleaned_text == RemoveChars(text, {"-", " "})
        starts == {i \in 1..Len(cleaned_text) : phone_match_end(cleaned_text, i) > 0}
    IN IF text = "" \/ starts = {} THEN ""
       ELSE SubSeq(cleaned_text, Min(starts), phone_match_end(cleaned_text, Min(starts)))

StartsWithAt(s, i, p) ==
    i + Len(p) - 1 <= Len(s) /\ SubSeq(s, i, i + Len(p) - 1) = p

\* \s*(?:years?|yrs?) at index g of s
exp_suffix_at(s, g) ==
    LET w == FirstNotIn(s, g, Whitespace)
    IN StartsWithAt(s, w, "year") \/ StartsWithAt(s, w, "yr")

\* group(1) of (\d+(?:\.\d+)?)\s*(?:years?|yrs?) matched at i, "" when no match
exp_group_at(s, i) ==
    IF Char(s, i) \notin Digits THEN ""
    ELSE LET a == FirstNotIn(s, i, Digits)
             hasFrac == Char(s, a) = "." /\ a + 1 <= Len(s) /\ Char(s, a + 1) \in Digits
             b == IF hasFrac THEN FirstNotIn(s, a + 1, Digits) ELSE a
         IN IF exp_suffix_at(s, b) THEN SubSeq(s, i, b - 1)
            ELSE IF exp_suffix_at(s, a) THEN SubSeq(s, i, a - 1)
            ELSE ""

\* re.search(exp_pattern, s).group(1), "" when the search finds nothing
exp_search(s) ==
    LET starts == {i \in 1..Len(s) : exp_group_at(s, i) # ""}
    IN IF starts = {} THEN "" ELSE exp_group_at(s, Min(starts))

\* ----------------------------------------------- numerals (float(), str(float))

RECURSIVE LStripZeros(_)
LStripZeros(s) ==
    IF Len(s) > 1 /\ Char(s, 1) = "0" THEN LStripZeros(Drop(s, 1)) ELSE s

RECURSIVE RStripZeros(_)
RStripZeros(s) ==
    IF Len(s) > 1 /\ Char(s, Len(s)) = "0"
    THEN RStripZeros(SubSeq(s, 1, Len(s) - 1))
    ELSE s

\* a decimal numeral digits[.digits], the shape group(1) has
IsDecimal(s) ==
    LET a == FirstNotIn(s, 1, Digits)
    IN /\ a > 1
       /\ \/ a = Len(s) + 1
          \/ Char(s, a) = "." /\ a < Len(s) /\ AllIn(s, a + 1, Len(s), Digits)

IntPart(s) == LStripZeros(SubSeq(s, 1, FirstNotIn(s, 1, Digits) - 1))

FracPart(s) ==
    LET a == FirstNotIn(s, 1, Digits)
    IN IF a > Len(s) THEN "0" ELSE RStripZeros(Drop(s, a))

\* str(float(s)) for a decimal numeral s: "5" -> "5.0", "01.50" -> "1.5"
FloatStr(s) == IntPart(s) \o "." \o FracPart(s)

\* ExperienceValidator.extract_experience ("" for None)
extract_experience(text) ==
    LET text_lower == Lower(text)
        group1 == exp_search(text_lower)
        years == FloatStr(group1)
    IN IF text = "" \/ group1 = "" THEN ""
       ELSE IF years # "1.0" THEN years \o " years" ELSE "1 year"

\* ------------------------------------------------- chatbot.py: orchestrator

\* is_exit_keyword and the scans of extract_candidate_info are pure functions of
\* the prompt: they are tabulated once over Prompts and looked up by the actions.
exit_table == [u \in Prompts |-> is_exit_keyword(u)]

scan_table ==
    [u \in Prompts |-> [email |-> extract_email(u), phone |-> extract_phone(u),
                        exp |-> exp_search(Lower(u))]]

is_exit(user_input) ==
    IF user_input \in Prompts THEN exit_table[user_input]
    ELSE is_exit_keyword(user_input)

scan(user_input) ==
    IF user_input \in Prompts THEN scan_table[user_input]
    ELSE [email |-> extract_email(user_input), phone |-> extract_phone(user_input),
          exp |-> exp_search(Lower(user_input))]

\* the number of stored turns forwarded to the model: conversation_history[-12:]
ContextWindow == 12

\* self.system_prompt (its first line; the text is a constant of the class)
system_prompt == "You are a Hiring Assistant chatbot for TalentScout"

\* get_farewell_message (its first line)
get_farewell_message == "Thank you so much for your time today!"

\* the first assistant message of a session
Greeting == "Hello! Welcome to TalentScout."

Msg(role, content) == [role |-> role, content |-> content]

\* a dict with one more key
Put(d, k, v) == [x \in DOMAIN d \cup {k} |-> IF x = k THEN v ELSE d[x]]

EmptyDict == [k \in {} |-> ""]

\* one step of extract_candidate_info that stores the value whether or not the
\* key is already there
set_always(info, key, value) ==
    IF value # "" THEN Put(info, key, value) ELSE info

\* one step of extract_candidate_info: "if key not in self.candidate_info" and
\* something was extracted, store it
set_if_absent(info, key, value) ==
    IF key \notin DOMAIN info /\ value # "" THEN Put(info, key, value) ELSE info

\* group(1) + ' years' ("" when the search found nothing)
with_years(group1) == IF group1 = "" THEN "" ELSE group1 \o " years"

\* the three steps of extract_candidate_info on the scans of one utterance
merge_scan(info, found) ==
    set_if_absent(
        set_if_absent(set_if_absent(info, "email", found.email), "phone", found.phone),
        "experience", with_years(found.exp))

\* extract_candidate_info: the candidate record after scanning user_input
extract_candidate_info(info, user_input) == merge_scan(info, scan(user_input))

\* seq[-n:]
LastN(seq, n) ==
    IF Len(seq) <= n THEN seq ELSE SubSeq(seq, Len(seq) - n + 1, Len(seq))

\* seq[:n]
FirstN(seq, n) == IF Len(seq) <= n THEN seq ELSE SubSeq(seq, 1, n)

\* the slice taken from the wrong end: conversation_history[:12]
history_window_oldest(history) == FirstN(history, ContextWindow)

\* the slice one turn short: conversation_history[-11:]
history_window_short(history) == LastN(history, ContextWindow - 1)

\* the context slice of get_response: self.conversation_history[-12:]
history_window(history) == LastN(history, ContextWindow)

\* the message list get_response builds for the remote call
build_messages(history, user_input) ==
    <<Msg("system", system_prompt)>> \o history_window(history)
        \o <<Msg("user", user_input)>>

\* the except branch of get_response
apology(error) ==
    "I apologize, but I'm experiencing technical difficulties. Please try again in a moment. Error: "
        \o error

\* The remote service is opaque: a call returns one choice with some text, raises,
\* or returns no choice (response.choices[0] then raises IndexError).
Replies == {"Thanks. What is your email?"}

Errors == {"Connection error."}

LLMOutcomes ==
    {[kind |-> "ok", text |-> r] : r \in Replies}
        \cup {[kind |-> "raise", text |-> e] : e \in Errors}
        \cup {[kind |-> "nochoice", text |-> "list index out of range"]}

NoCall == [sent |-> <<>>, result |-> [kind |-> "none", text |-> ""]]

\* get_response with the user turn stored before the remote call is made
get_response_store_first(history, info, user_input, outcome) ==
    IF is_exit(user_input)
    THEN [reply |-> get_farewell_message, history |-> history, info |-> info,
          call |-> NoCall]
    ELSE LET msgs == build_messages(history, user_input)
             stored == history \o <<Msg("user", user_input)>>
         IN IF outcome.kind = "ok"
            THEN [reply |-> outcome.text,
                  history |-> stored \o <<Msg("assistant", outcome.text)>>,
                  info |-> extract_candidate_info(info, user_input),
                  call |-> [sent |-> msgs, result |-> outcome]]
            ELSE [reply |-> apology(outcome.text), history |-> stored,
                  info |-> info, call |-> [sent |-> msgs, result |-> outcome]]

\* get_response: the returned text, the chatbot's fields after the call, and the
\* remote call it made (the message list sent and what came back; NoCall if none)
get_response(history, info, user_input, outcome) ==
    IF is_exit(user_input)
    THEN [reply |-> get_farewell_message, history |-> history, info |-> info,
          call |-> NoCall]
    ELSE LET msgs == build_messages(history, user_input)
         IN IF outcome.kind = "ok"
            THEN [reply |-> outcome.text,
                  history |-> history \o <<Msg("user", user_input),
                                           Msg("assistant", outcome.text)>>,
                  info |-> extract_candidate_info(info, user_input),
                  call |-> [sent |-> msgs, result |-> outcome]]
            ELSE [reply |-> apology(outcome.text), history |-> history,
                  info |-> info, call |-> [sent |-> msgs, result |-> outcome]]

\* ------------------------------------------------------- app.py: chat shell

FirstMessages == <<Msg("assistant", Greeting)>>

DialogueInit ==
    /\ conversation_ended = FALSE
    /\ messages = FirstMessages
    /\ chatbot = 1
    /\ conversation_history = <<>>
    /\ candidate_info = EmptyDict
    /\ remote = NoCall
    /\ turns = 0

\* the chat input takes text whatever the interview's state
chat_input_always_enabled == TRUE

\* the else branch of "if st.session_state.conversation_ended": the chat input is
\* live only while the interview is in progress (it is rendered disabled otherwise)
chat_input_enabled == ~conversation_ended

\* the exit branch without the flag being set
end_interview_keep_active(prompt) ==
    /\ messages' = messages \o <<Msg("user", prompt),
                                 Msg("assistant", get_farewell_message)>>
    /\ remote' = NoCall
    /\ UNCHANGED <<conversation_ended, chatbot, conversation_history, candidate_info>>

\* main, the branch taken when is_exit_keyword(prompt) holds
end_interview(prompt) ==
    /\ messages' = messages \o <<Msg("user", prompt),
                                 Msg("assistant", get_farewell_message)>>
    /\ conversation_ended' = TRUE
    /\ remote' = NoCall
    /\ UNCHANGED <<chatbot, conversation_history, candidate_info>>

\* main, the branch that asks the chatbot for a response
respond(prompt, outcome) ==
    \E r \in {get_response(conversation_history, candidate_info, prompt, outcome)} :
        /\ messages' = messages \o <<Msg("user", prompt), Msg("assistant", r.reply)>>
        /\ conversation_history' = r.history
        /\ candidate_info' = r.info
        /\ remote' = r.call
        /\ UNCHANGED <<chatbot, conversation_ended>>

\* main, with a prompt submitted in the chat input
Submit(prompts, outcomes, maxTurns) ==
    /\ pc = "dialogue"
    /\ chat_input_enabled
    /\ turns < maxTurns
    /\ \E prompt \in prompts, outcome \in outcomes :
        /\ turns' = turns + 1
        /\ IF is_exit(prompt)
           THEN end_interview(prompt)
           ELSE respond(prompt, outcome)
    /\ UNCHANGED <<input, output, pc>>

\* main, with "Start New Interview" pressed once the interview is complete
StartNewInterview ==
    /\ pc = "dialogue"
    /\ conversation_ended
    /\ messages' = FirstMessages
    /\ chatbot' = chatbot + 1
    /\ conversation_history' = <<>>
    /\ candidate_info' = EmptyDict
    /\ conversation_ended' = FALSE
    /\ remote' = NoCall
    /\ UNCHANGED <<turns, input, output, pc>>

Init ==
    /\ DialogueInit
    /\ input = ""
    /\ output = ""
    /\ pc = "dialogue"

Next ==
    \/ Submit(Utterances, LLMOutcomes, MaxTurns)
    \/ StartNewInterview

Spec == Init /\ [][Next]_vars

\* The same shell with a longer interview and fewer inputs, to fill the context
\* window of get_response.
WindowOutcomes == {o \in LLMOutcomes : o.kind \in {"ok", "raise"}}

NextWindow ==
    \/ Submit(WindowUtterances, WindowOutcomes, MaxWindowTurns)
    \/ StartNewInterview

SpecWindow == Init /\ [][NextWindow]_vars

\* ---------------------------------------------------- claims on the dialogue

\* the user message and the reply the last turn appended to the transcript
TurnPrompt(ms) == ms[Len(ms) - 1].content

TurnReply(ms) == ms[Len(ms)].content

TurnTaken == turns' = turns + 1

\* C1: a turn taken while the interview is in progress whose prompt the exit
\* detector accepts is answered with the farewell message, ends the interview,
\* makes no remote call, and leaves the chatbot's history and candidate record as
\* they were.
C1_ExitTurnEndsInterview ==
    [][(TurnTaken /\ ~conversation_ended /\ is_exit(TurnPrompt(messages')))
         => /\ messages'[Len(messages')] = Msg("assistant", get_farewell_message)
            /\ conversation_ended'
            /\ remote' = NoCall
            /\ UNCHANGED <<chatbot, conversation_history, candidate_info>>]_vars

\* an interview ended by an exit turn after turns that filled history and record
C1_Witness ==
    /\ conversation_ended
    /\ is_exit(TurnPrompt(messages))
    /\ Len(conversation_history) > 0
    /\ DOMAIN candidate_info # {}

\* C2: a turn whose remote call raises or returns no choice is answered with the
\* apology, which contains "technical difficulties" and the error text; the
\* interview stays in progress and history and candidate record are unchanged.
C2_FailedCallLeavesStateAlone ==
    [][(TurnTaken /\ remote'.result.kind \in {"raise", "nochoice"})
         => /\ Contains("technical difficulties", TurnReply(messages'))
            /\ Contains(remote'.result.text, TurnReply(messages'))
            /\ ~is_exit(TurnPrompt(messages'))
            /\ ~conversation_ended'
            /\ UNCHANGED <<conversation_history, candidate_info>>]_vars

\* a call that returned no choice, made once history and record were not empty
C2_Witness ==
    /\ remote.result.kind = "nochoice"
    /\ ~conversation_ended
    /\ Len(conversation_history) > 0
    /\ DOMAIN candidate_info # {}

\* C3: within one chatbot, a key of the candidate record, once set, keeps its
\* value: the keys only grow and no turn overwrites email, phone or experience.
C3_FirstWriteWins ==
    [][chatbot' = chatbot
         => \A k \in DOMAIN candidate_info :
                k \in DOMAIN candidate_info' /\ candidate_info'[k] = candidate_info[k]]_vars

\* the record holds the first email after a successful turn gave another one
C3_Witness ==
    /\ "email" \in DOMAIN candidate_info
    /\ candidate_info["email"] = "a@b.co"
    /\ remote.result.kind = "ok"
    /\ scan(TurnPrompt(messages)).email = "x@y.io"

\* C5 as stated: once the interview has ended, no later step makes it active.
C5_EndedIsTerminal == [][conversation_ended => conversation_ended']_vars

\* C5 as amended: while the interview is ended no user turn is processed and no
\* remote call is made; the only step that leaves the ended state is Start New
\* Interview, which installs a new chatbot with empty history and record.
C5_EndedLeftOnlyByNewInterview ==
    [][conversation_ended
         => /\ turns' = turns
            /\ remote' = NoCall
            /\ \/ /\ conversation_ended'
                  /\ UNCHANGED <<chatbot, conversation_history, candidate_info, messages>>
               \/ /\ ~conversation_ended'
                  /\ chatbot' # chatbot
                  /\ conversation_history' = <<>>
                  /\ candidate_info' = EmptyDict
                  /\ messages' = FirstMessages]_vars

\* a second interview under way after the first one ended
C5_Witness ==
    /\ chatbot > 1
    /\ ~conversation_ended
    /\ Len(conversation_history) > 0

EndsWith(s, suffix) ==
    Len(s) >= Len(suffix) /\ SubSeq(s, Len(s) - Len(suffix) + 1, Len(s)) = suffix

\* "<N> years" with N a number other than 1, or "1 year"
NormalizedExperience(v) ==
    \/ v = "1 year"
    \/ /\ EndsWith(v, " years")
       /\ IsDecimal(SubSeq(v, 1, Len(v) - 6))
       /\ FloatStr(SubSeq(v, 1, Len(v) - 6)) # "1.0"

\* C6: the experience stored by per-turn extraction is "<N> years", and "1 year"
\* when the matched number is exactly 1.
C6_ExperienceNormalized ==
    "experience" \in DOMAIN candidate_info
        => NormalizedExperience(candidate_info["experience"])

\* the turns of a transcript whose reply came from the remote service, in order:
\* ms[1] is the greeting, then one (user, assistant) pair per turn
RECURSIVE AnsweredTurns(_, _)
AnsweredTurns(ms, j) ==
    IF 2 * j + 1 > Len(ms) THEN <<>>
    ELSE (IF ms[2 * j + 1].content \in Replies
          THEN <<ms[2 * j], ms[2 * j + 1]>>
          ELSE <<>>) \o AnsweredTurns(ms, j + 1)

\* the number of stored turns a call forwards: min(12, n)
Forwarded(n) == IF n < 12 THEN n ELSE 12

\* C4: the message list of every remote call is the system instructions, the
\* most recent min(12, n) of the n stored turns in stored order, then the current
\* user turn; the stored history is never truncated: it holds both turns of every
\* answered turn of the interview.
C4_ContextWindow ==
    /\ [](conversation_history = AnsweredTurns(messages, 1))
    /\ [][(TurnTaken /\ remote'.sent # <<>>)
            => LET n == Len(conversation_history)
                   k == Forwarded(n)
                   sent == remote'.sent
               IN /\ Len(sent) = k + 2
                  /\ sent[1] = Msg("system", system_prompt)
                  /\ \A i \in 1..k : sent[1 + i] = conversation_history[n - k + i]
                  /\ sent[k + 2] = Msg("user", TurnPrompt(messages'))]_vars

\* a call made with 14 turns stored forwarded 12 of them, and its own turn was
\* stored after them
C4_Witness ==
    /\ Len(conversation_history) = 16
    /\ Len(remote.sent) = 14
    /\ remote.sent[2] = conversation_history[3]
    /\ remote.sent[2] # conversation_history[1]

RoleAt(i) == IF i % 2 = 1 THEN "user" ELSE "assistant"

\* C10: the history has even length and alternates user, assistant from a user
\* turn; a turn adds its user and assistant entries when its remote call
\* succeeds and nothing otherwise; every message list sent is the system message
\* followed by alternating turns that begin and end with a user turn.
C10_HistoryAlternates ==
    /\ [](/\ Len(conversation_history) % 2 = 0
          /\ \A i \in 1..Len(conversation_history) :
                conversation_history[i].role = RoleAt(i))
    /\ [](remote.sent # <<>>
            => /\ remote.sent[1].role = "system"
               /\ Len(remote.sent) % 2 = 0
               /\ \A i \in 2..Len(remote.sent) : remote.sent[i].role = RoleAt(i - 1))
    /\ [][TurnTaken
            => IF remote'.result.kind = "ok"
               THEN conversation_history' = conversation_history
                        \o <<Msg("user", TurnPrompt(messages')),
                             Msg("assistant", TurnReply(messages'))>>
               ELSE conversation_history' = conversation_history]_vars

\* a failed call made when more turns were stored than the window forwards
C10_Witness ==
    /\ Len(conversation_history) >= 14
    /\ remote.result.kind = "raise"
    /\ Len(remote.sent) = 14

\* ------------------------------------------ the exit detector on bounded texts

\* the pieces the texts are put together from
Fragments == {"bye", "Stop", ".", " ", "-", "fri", "end", "gotta", "go"}

RECURSIVE TextsOf(_)
TextsOf(n) ==
    IF n = 0 THEN {""}
    ELSE LET shorter == TextsOf(n - 1)
         IN shorter \cup {t \o f : t \in shorter, f \in Fragments}

ExitTexts == TextsOf(MaxFragments)

FunctionInit(inputs) ==
    /\ DialogueInit
    /\ input \in inputs
    /\ output = ""
    /\ pc = "ready"

InitExit == FunctionInit(ExitTexts)

\* one call of chatbot.is_exit_keyword
CallIsExitKeyword ==
    /\ pc = "ready"
    /\ output' = is_exit_keyword(input)
    /\ pc' = "done"
    /\ UNCHANGED <<input, dialogue_vars>>

SpecExit == InitExit /\ [][CallIsExitKeyword]_vars

KeywordSet == {exit_keywords[i] : i \in 1..Len(exit_keywords)}

\* the whitespace-delimited tokens of s, as index pairs: the maximal runs of
\* characters that are not whitespace
TokenSpans(s) ==
    {sp \in (1..Len(s)) \X (1..Len(s)) :
        /\ sp[1] <= sp[2]
        /\ \A k \in sp[1]..sp[2] : Char(s, k) \notin Whitespace
        /\ sp[1] = 1 \/ Char(s, sp[1] - 1) \in Whitespace
        /\ sp[2] = Len(s) \/ Char(s, sp[2] + 1) \in Whitespace}

\* some token of the text, case aside, is an exit keyword
HasExitToken(text) ==
    \E sp \in TokenSpans(text) : Lower(SubSeq(text, sp[1], sp[2])) \in KeywordSet

\* some token of the text, case and its non-word characters aside, is an exit keyword
HasCleanedExitToken(text) ==
    \E sp \in TokenSpans(text) :
        KeepChars(Lower(SubSeq(text, sp[1], sp[2])), WordChars) \in KeywordSet

\* some exit phrase occurs in the text, case aside
HasExitPhrase(text) ==
    \E i \in 1..Len(exit_phrases) : Contains(exit_phrases[i], Lower(text))

\* C7 as stated: is_exit_keyword is false on every text with no exit keyword as an
\* exact whitespace-delimited token and no exit phrase as a substring.
C7_TrueOnlyOnExactToken ==
    (pc = "done" /\ output) => (HasExitToken(input) \/ HasExitPhrase(input))

\* C7 as amended: is_exit_keyword is false on every text (the empty one included)
\* in which no whitespace-delimited token, with its non-word characters removed,
\* is an exit keyword and no exit phrase occurs, case aside.
C7_TrueOnlyOnCleanedToken ==
    (pc = "done" /\ output) => (HasCleanedExitToken(input) \/ HasExitPhrase(input))

\* the detector answered false on a text that has an exit keyword inside a word
C7_Witness ==
    /\ pc = "done"
    /\ ~output
    /\ Contains("end", Lower(input))
    /\ ~HasCleanedExitToken(input)

\* ------------------------------------------------ validators.py: sanitization

\* the characters of r'[<>"\';]'
HarmfulChars == {"<", ">", "\"", "'", ";"}

\* the two steps in the other order: strip, then remove the characters
sanitize_input_strip_first(text) ==
    IF text = "" THEN "" ELSE RemoveChars(Strip(text), HarmfulChars)

\* DataValidator.sanitize_input
sanitize_input(text) ==
    IF text = "" THEN "" ELSE Strip(RemoveChars(text, HarmfulChars))

\* A value of a record is tagged with its Python type: [type |-> "str", val |-> s]
\* is the string s; any other type stands for a value that is no string.
Str(s) == [type |-> "str", val |-> s]

NonStr(type, repr) == [type |-> type, val |-> repr]

sanitize_value(value) ==
    IF value.type = "str" THEN Str(sanitize_input(value.val)) ELSE value

\* CandidateDataManager.sanitize_candidate_data: a new dict, key by key
sanitize_candidate_data(candidate_info_in) ==
    [key \in DOMAIN candidate_info_in |-> sanitize_value(candidate_info_in[key])]

\* the characters the sanitized texts are made of
SanitizeAlphabet == {"<", ";", " ", "a"}

RECURSIVE StringsOver(_, _)
StringsOver(alphabet, n) ==
    IF n = 0 THEN {""}
    ELSE LET shorter == StringsOver(alphabet, n - 1)
         IN shorter \cup {t \o c : t \in shorter, c \in alphabet}

\* the records built around a text: none of the keys, the text alone, and the
\* text beside an integer and beside another string
RecordsWith(s) ==
    {EmptyDict,
     [k \in {"name"} |-> Str(s)],
     [k \in {"name", "years"} |-> IF k = "name" THEN Str(s) ELSE NonStr("int", "5")],
     [k \in {"name", "location"} |-> IF k = "name" THEN Str(s) ELSE Str(" <Pune>; ")]}

SanitizeTexts == StringsOver(SanitizeAlphabet, MaxLen)

SanitizeInputs ==
    UNION {{[text |-> s, record |-> r] : r \in RecordsWith(s)} : s \in SanitizeTexts}

InitSanitize == FunctionInit(SanitizeInputs)

\* one call of sanitize_input and one of sanitize_candidate_data
CallSanitize ==
    /\ pc = "ready"
    /\ output' = [text |-> sanitize_input(input.text),
                  record |-> sanitize_candidate_data(input.record)]
    /\ pc' = "done"
    /\ UNCHANGED <<input, dialogue_vars>>

SpecSanitize == InitSanitize /\ [][CallSanitize]_vars

\* C9: sanitizing a sanitized string, or a sanitized record, changes nothing;
\* sanitize_candidate_data returns a mapping with the keys of its input, whose
\* non-string values are the input's, and leaves the input record as it was.
C9_SanitizeIdempotent ==
    /\ [](pc = "done"
            => /\ sanitize_input(output.text) = output.text
               /\ sanitize_candidate_data(output.record) = output.record
               /\ DOMAIN output.record = DOMAIN input.record
               /\ \A k \in DOMAIN input.record :
                      input.record[k].type # "str" => output.record[k] = input.record[k])
    /\ [][input' = input]_vars

\* the sanitizer removed characters and trimmed, beside a value that is no string
C9_Witness ==
    /\ pc = "done"
    /\ output.text # ""
    /\ Len(output.text) + 2 <= Len(input.text)
    /\ Char(input.text, 1) = " "
    /\ \E k \in DOMAIN input.record : input.record[k].type # "str"

\* --------------------------------------------- validators.py: record validation

\* str.replace(old, ""), every occurrence from the left
RECURSIVE Without(_, _)
Without(s, old) ==
    IF s = "" THEN ""
    ELSE IF StartsWithAt(s, 1, old) THEN Without(Drop(s, Len(old)), old)
    ELSE Char(s, 1) \o Without(Drop(s, 1), old)

RECURSIVE ToNat(_)
ToNat(digits) ==
    IF digits = "" THEN 0
    ELSE 10 * ToNat(SubSeq(digits, 1, Len(digits) - 1))
            + (CHOOSE d \in 0..9 : Char("0123456789", d + 1) = Char(digits, Len(digits)))

\* the largest number of years is_valid_experience accepts
MaxYears == 50

\* a float() literal without its sign
Unsigned(s) == IF Char(s, 1) \in {"+", "-"} THEN Drop(s, 1) ELSE s

\* the texts float() parses, among those made of a sign, digits and a point:
\* digits, digits "." [digits], "." digits; on any other text float() raises
IsFloatLiteral(s) ==
    LET a == FirstNotIn(Unsigned(s), 1, Digits)
    IN \/ a > 1 /\ a = Len(Unsigned(s)) + 1
       \/ a > 1 /\ Char(Unsigned(s), a) = "." /\ AllIn(Unsigned(s), a + 1, Len(Unsigned(s)), Digits)
       \/ a = 1 /\ Char(Unsigned(s), 1) = "." /\ Len(Unsigned(s)) >= 2
             /\ AllIn(Unsigned(s), 2, Len(Unsigned(s)), Digits)

\* the integer part of a float literal, and whether its fraction is zero
WholePart(s) == ToNat(SubSeq(Unsigned(s), 1, FirstNotIn(Unsigned(s), 1, Digits) - 1))

FractionIsZero(s) ==
    AllIn(Unsigned(s), FirstNotIn(Unsigned(s), 1, Digits) + 1, Len(Unsigned(s)), {"0"})

\* 0 <= float(s) <= 50
in_valid_range(s) ==
    IF Char(s, 1) = "-"
    THEN WholePart(s) = 0 /\ FractionIsZero(s)
    ELSE \/ WholePart(s) < MaxYears
         \/ WholePart(s) = MaxYears /\ FractionIsZero(s)

\* ExperienceValidator.is_valid_experience; float() strips surrounding
\* whitespace, and its ValueError is turned into False
is_valid_experience(years) ==
    LET num == Strip(Without(Without(years, " years"), " year"))
    IN IsFloatLiteral(num) /\ in_valid_range(num)

\* PhoneValidator.is_valid_phone: the verdict on a non-empty string is the
\* phonenumbers library's, given as the set of strings it accepts
is_valid_phone(phone_str, accepted) ==
    IF phone_str = "" THEN FALSE ELSE phone_str \in accepted

\* the characters of name_pattern ^[a-zA-Z\s\-'\.]+$
NameChars == Letters \cup Whitespace \cup {"-", "'", "."}

\* the longest name validate_name accepts
MaxNameLen == 100

\* DataValidator.validate_name
validate_name(name) ==
    IF name = "" THEN FALSE
    ELSE /\ Len(Split(Strip(name))) >= 1
         /\ AllIn(name, 1, Len(name), NameChars)
         /\ Len(name) <= MaxNameLen

\* the validator validate_candidate_data applies to a key
field_is_valid(key, value, accepted) ==
    CASE key = "email" -> is_valid_email(value)
      [] key = "phone" -> is_valid_phone(value, accepted)
      [] key = "experience" -> is_valid_experience(value)
      [] key = "name" -> validate_name(value)

\* one block of validate_candidate_data that appends the message and leaves the
\* valid flag alone
validate_field_keep_flag(results, info, key, message, accepted) ==
    IF key \in DOMAIN info /\ ~field_is_valid(key, info[key], accepted)
    THEN [valid |-> results.valid, errors |-> Append(results.errors, message)]
    ELSE results

\* one block of validate_candidate_data: "if key in candidate_info" and the
\* validator rejects the value, clear the flag and append the message
validate_field(results, info, key, message, accepted) ==
    IF key \in DOMAIN info /\ ~field_is_valid(key, info[key], accepted)
    THEN [valid |-> FALSE, errors |-> Append(results.errors, message)]
    ELSE results

\* CandidateDataManager.validate_candidate_data
validate_candidate_data(info, accepted) ==
    validate_field(
        validate_field(
            validate_field(
                validate_field([valid |-> TRUE, errors |-> <<>>],
                               info, "email", "Invalid email format", accepted),
                info, "phone", "Invalid phone number", accepted),
            info, "experience", "Invalid experience format", accepted),
        info, "name", "Invalid name format", accepted)

\* the values a record under validation may hold, key by key
FieldValues ==
    [email |-> {"a@b.co", "a@b", "@b.co"},
     phone |-> {"5551234567", "12"},
     experience |-> {"5 years", "1 year", "50.0 years", "50.5 years", "many"},
     name |-> {"Ada Lovelace", "R2 D2"},
     position |-> {"Engineer"}]

RecordsOver(keys) == [keys -> UNION {FieldValues[k] : k \in keys}]

ValidateRecords ==
    UNION {{r \in RecordsOver(keys) : \A k \in keys : r[k] \in FieldValues[k]} :
              keys \in SUBSET DOMAIN FieldValues}

\* a record and the set of phone strings the phonenumbers library accepts
ValidateInputs ==
    {[record |-> r, accepted |-> a] :
        r \in ValidateRecords, a \in {{}, {"5551234567"}}}

InitValidate == FunctionInit(ValidateInputs)

\* one call of validate_candidate_data
CallValidate ==
    /\ pc = "ready"
    /\ output' = validate_candidate_data(input.record, input.accepted)
    /\ pc' = "done"
    /\ UNCHANGED <<input, dialogue_vars>>

SpecValidate == InitValidate /\ [][CallValidate]_vars

CheckedKeys == <<"email", "phone", "experience", "name">>

ErrorMessage ==
    [email |-> "Invalid email format", phone |-> "Invalid phone number",
     experience |-> "Invalid experience format", name |-> "Invalid name format"]

\* the messages of the checked keys that are present and rejected, in checked order
RECURSIVE ExpectedErrors(_, _, _)
ExpectedErrors(info, accepted, i) ==
    IF i > Len(CheckedKeys) THEN <<>>
    ELSE (IF CheckedKeys[i] \in DOMAIN info
             /\ ~field_is_valid(CheckedKeys[i], info[CheckedKeys[i]], accepted)
          THEN <<ErrorMessage[CheckedKeys[i]]>>
          ELSE <<>>) \o ExpectedErrors(info, accepted, i + 1)

\* C8: validate_candidate_data checks the keys email, phone, experience, name
\* that are present, in that order; errors holds one fixed message per rejected
\* key in that order, valid is true exactly when errors is empty, and a record
\* with none of the four keys is valid with no errors.
C8_ValidateRecord ==
    pc = "done"
        => /\ output.errors = ExpectedErrors(input.record, input.accepted, 1)
           /\ output.valid = (output.errors = <<>>)
           /\ (DOMAIN input.record \cap {"email", "phone", "experience", "name"} = {}
                 => output = [valid |-> TRUE, errors |-> <<>>])

\* a record with two rejected keys, one accepted key and one key left unchecked
C8_Witness ==
    /\ pc = "done"
    /\ DOMAIN input.record = {"email", "experience", "name", "position"}
    /\ output.errors = <<"Invalid email format", "Invalid name format">>
    /\ ~output.valid

====
